---------------------------- MODULE Spec2Model ----------------------------
(***************************************************************************)
(* A model of ip_lookup.py: the TTL cache (in-process map or Redis), the   *)
(* provider adapters, the two-wave hedged fan-out of lookup_ip, the merge  *)
(* of the completed records and the cache write.                           *)
(*                                                                         *)
(* Text is a sequence of one-character strings, so that parsing, prefix    *)
(* stripping and substring tests are computed, not assumed.  Time is one   *)
(* global clock counted in ticks of 200 ms.                                *)
(***************************************************************************)
EXTENDS Integers, Sequences, FiniteSets, TLC

(***************************************************************************)
(* Bounds of the model.                                                    *)
(***************************************************************************)
\* The clock stops advancing at MaxClock ticks.
MaxClock == 14

(***************************************************************************)
(* Text helpers.                                                           *)
(***************************************************************************)
Digits == {"0", "1", "2", "3", "4", "5", "6", "7", "8", "9"}
HexDigits == Digits \cup {"a", "b", "c", "d", "e", "f", "A", "B", "C", "D", "E", "F"}

DigitVal(ch) ==
    CASE ch = "0" -> 0 [] ch = "1" -> 1 [] ch = "2" -> 2 [] ch = "3" -> 3
      [] ch = "4" -> 4 [] ch = "5" -> 5 [] ch = "6" -> 6 [] ch = "7" -> 7
      [] ch = "8" -> 8 [] ch = "9" -> 9

RECURSIVE DecVal(_)
DecVal(s) == IF s = <<>> THEN 0 ELSE 10 * DecVal(SubSeq(s, 1, Len(s) - 1)) + DigitVal(s[Len(s)])

\* str.split(sep): the parts of s between the occurrences of the character sep.
RECURSIVE Split(_, _)
Split(s, sep) ==
    IF \A i \in 1..Len(s) : s[i] # sep
    THEN <<s>>
    ELSE LET i == CHOOSE j \in 1..Len(s) : s[j] = sep /\ \A k \in 1..(j - 1) : s[k] # sep
         IN  <<SubSeq(s, 1, i - 1)>> \o Split(SubSeq(s, i + 1, Len(s)), sep)

\* sub in s, for texts.
Contains(s, sub) ==
    \E i \in 1..(Len(s) - Len(sub) + 1) : SubSeq(s, i, i + Len(sub) - 1) = sub

Lowers == <<"a","b","c","d","e","f","g","h","i","j","k","l","m",
            "n","o","p","q","r","s","t","u","v","w","x","y","z">>
Uppers == <<"A","B","C","D","E","F","G","H","I","J","K","L","M",
            "N","O","P","Q","R","S","T","U","V","W","X","Y","Z">>

LowerCh(ch) ==
    IF \E i \in 1..26 : Uppers[i] = ch
    THEN Lowers[CHOOSE i \in 1..26 : Uppers[i] = ch]
    ELSE ch

UpperCh(ch) ==
    IF \E i \in 1..26 : Lowers[i] = ch
    THEN Uppers[CHOOSE i \in 1..26 : Lowers[i] = ch]
    ELSE ch

Lower(s) == [i \in 1..Len(s) |-> LowerCh(s[i])]
Upper(s) == [i \in 1..Len(s) |-> UpperCh(s[i])]

\* str.strip(): leading and trailing blanks removed.
RECURSIVE Strip(_)
Strip(s) ==
    IF s = <<>> THEN s
    ELSE IF s[1] = " " THEN Strip(Tail(s))
    ELSE IF s[Len(s)] = " " THEN Strip(SubSeq(s, 1, Len(s) - 1))
    ELSE s

\* str.lstrip(chars): leading characters that are in chars removed.
RECURSIVE LStrip(_, _)
LStrip(s, chars) ==
    IF s # <<>> /\ s[1] \in chars THEN LStrip(Tail(s), chars) ELSE s

(***************************************************************************)
(* ipaddress.ip_address, as _validate_ip uses it: the text is an IPv4      *)
(* dotted quad or an IPv6 address, or the call raises ValueError.          *)
(***************************************************************************)
\* ValidOctet without the range test.
ValidOctet_NoRange(p) ==
    /\ Len(p) \in 1..3
    /\ \A i \in 1..Len(p) : p[i] \in Digits
    /\ (Len(p) > 1 => p[1] # "0")

ValidOctet(p) ==
    /\ Len(p) \in 1..3
    /\ \A i \in 1..Len(p) : p[i] \in Digits
    /\ (Len(p) > 1 => p[1] # "0")
    /\ DecVal(p) <= 255

ValidIPv4(s) ==
    LET parts == Split(s, ".")
    IN  /\ Len(parts) = 4
        /\ \A i \in 1..4 : ValidOctet(parts[i])

ValidHextet(p) ==
    /\ Len(p) \in 1..4
    /\ \A i \in 1..Len(p) : p[i] \in HexDigits

ValidIPv6(s) ==
    LET raw == Split(s, ":")
        n0 == Len(raw)
        v4tail == n0 >= 1 /\ "." \in {raw[n0][i] : i \in 1..Len(raw[n0])}
        \* an IPv4 tail stands for two hextets
        parts == IF v4tail THEN SubSeq(raw, 1, n0 - 1) \o <<<<"0">>, <<"0">>>> ELSE raw
        n == Len(parts)
        skips == {i \in 2..(n - 1) : parts[i] = <<>>}
    IN  /\ n0 >= 3
        /\ (v4tail => ValidIPv4(raw[n0]))
        /\ n <= 9
        /\ Cardinality(skips) <= 1
        /\ IF skips # {}
           THEN LET k == CHOOSE i \in skips : TRUE
                    hi == IF parts[1] = <<>> THEN k - 2 ELSE k - 1
                    lo == IF parts[n] = <<>> THEN n - k - 1 ELSE n - k
                IN  /\ (parts[1] = <<>> => hi = 0)
                    /\ (parts[n] = <<>> => lo = 0)
                    /\ 8 - (hi + lo) >= 1
                    /\ \A i \in 1..n : parts[i] # <<>> => ValidHextet(parts[i])
           ELSE /\ n = 8
                /\ \A i \in 1..n : ValidHextet(parts[i])

_validate_ip(ip) == ValidIPv4(ip) \/ ValidIPv6(ip)


(***************************************************************************)
(* Values.  Python's None is None where a record or a loc may stand and    *)
(* NoneT where a text may stand.  A float is counted in millionths (the    *)
(* six decimals that _norm_coord prints); a confidence in tenths.          *)
(***************************************************************************)
None == [t |-> "None"]
NoneT == <<"None">>

\* Python truthiness of an optional text: None and "" are false.
TruthyT(x) == x # NoneT /\ x # <<>>
\* x or "" for an optional text.
OrEmpty(x) == IF TruthyT(x) THEN x ELSE <<>>

\* A JSON number n (in millionths), JSON null, and a JSON string that is no number.
Num(n) == [t |-> "num", v |-> n]
JNull == [t |-> "null"]
JText == [t |-> "str"]

\* A "<lat>,<lon>" text with the given number of decimals.
LatLon(la, lo, places) == [t |-> "latlon", lat |-> la, lon |-> lo, places |-> places]

Deg(d) == d * 1000000

(***************************************************************************)
(* _norm_coord: float() of both values (a TypeError or ValueError gives    *)
(* None), the range test, and the six-decimal rendering.                   *)
(***************************************************************************)
_norm_coord(lat, lon) ==
    IF lat.t = "num" /\ lon.t = "num"
    THEN IF Deg(-90) <= lat.v /\ lat.v <= Deg(90) /\ Deg(-180) <= lon.v /\ lon.v <= Deg(180)
         THEN LatLon(lat.v, lon.v, 6)
         ELSE None
    ELSE None

\* The keywords of _isp_to_company that mark a hosting company.
HostingKeywords ==
    { <<"a","w","s">>, <<"a","m","a","z","o","n">>, <<"g","o","o","g","l","e">>,
      <<"g","c","p">>, <<"a","z","u","r","e">>,
      <<"m","i","c","r","o","s","o","f","t">>,
      <<"c","l","o","u","d","f","l","a","r","e">>, <<"o","v","h">>,
      <<"d","i","g","i","t","a","l","o","c","e","a","n">>,
      <<"h","e","t","z","n","e","r">>, <<"a","l","i","y","u","n">>,
      <<"a","k","a","m","a","i">>, <<"f","a","s","t","l","y">>,
      <<"o","r","a","c","l","e"," ","c","l","o","u","d">> }

_isp_to_company(isp0) ==
    LET isp == Strip(OrEmpty(isp0))
        company_type == IF \E k \in HostingKeywords : Contains(Lower(isp), k)
                        THEN "hosting" ELSE "isp"
    IN  [name |-> isp, domain |-> <<>>, type |-> company_type]

_asn_block(asn, org) ==
    LET a == LStrip(Upper(OrEmpty(asn)), {"A", "S"})
    IN  [asn |-> IF a # <<>> THEN <<"A", "S">> \o a ELSE <<>>,
         name |-> OrEmpty(org),
         domain |-> <<>>,
         type |-> IF Contains(Lower(OrEmpty(org)), <<"c","l","o","u","d">>)
                  THEN "hosting" ELSE "isp"]

_privacy_guess(company_type) ==
    LET hosting == (company_type = "hosting")
    IN  [vpn |-> FALSE, proxy |-> FALSE, tor |-> FALSE, relay |-> FALSE, hosting |-> hosting]


(***************************************************************************)
(* What a provider's HTTP call ends in: an exception of client.get (a      *)
(* transport error or a timeout), or a reply with a status and a body that *)
(* is a JSON object or does not parse.                                     *)
(***************************************************************************)
TransportError == [kind |-> "error"]
BadJson == [t |-> "badjson"]
Reply(status, body) == [kind |-> "reply", status |-> status, body |-> body]

\* first `or` second, for optional texts.
OrT(x, y) == IF TruthyT(x) THEN x ELSE y

\* str.split(" ", 1): at most one split at the first blank.
SplitOnce(s) ==
    IF \A i \in 1..Len(s) : s[i] # " "
    THEN <<s>>
    ELSE LET i == CHOOSE j \in 1..Len(s) : s[j] = " " /\ \A k \in 1..(j - 1) : s[k] # " "
         IN  <<SubSeq(s, 1, i - 1), SubSeq(s, i + 1, Len(s))>>

(***************************************************************************)
(* The adapters.  Each gives a record of the common schema or None.  The   *)
(* fields city, region, region_code, continent, continent_code and postal  *)
(* are copied from the body and read by nothing; the model leaves them out.*)
(***************************************************************************)
p_ipapi(ip, resp) ==
    IF resp.kind = "error" THEN None
    ELSE IF resp.status # 200 THEN None
    ELSE IF resp.body = BadJson THEN None
    ELSE LET d == resp.body
             loc == _norm_coord(d.latitude, d.longitude)
             isp == d.org
         IN  [ip |-> OrT(d.ip, ip),
              country |-> d.country_name,
              country_code |-> d.country,
              loc |-> loc,
              timezone |-> d.timezone,
              asn |-> _asn_block(d.asn, d.org),
              company |-> _isp_to_company(isp),
              privacy |-> _privacy_guess(_isp_to_company(isp).type),
              source |-> <<"ipapi.co">>]

\* HasCredential that takes a missing token for a credential.
HasCredential_Always(token) == TRUE

\* The credential test that opens p_ipinfo and p_bigdatacloud: without the
\* token the adapter returns None and no request is made.
HasCredential(token) == token # ""

p_ipinfo(ip, resp) ==
    IF resp.kind = "error" THEN None
    ELSE IF resp.status # 200 THEN None
    ELSE IF resp.body = BadJson THEN None
    ELSE LET d == resp.body
             loc == d.loc
             org_field == OrEmpty(d.org)
             isp == IF org_field # <<>>
                    THEN SplitOnce(org_field)[Len(SplitOnce(org_field))] ELSE NoneT
             asn_code == IF org_field # <<>> THEN SplitOnce(org_field)[1] ELSE NoneT
         IN  [ip |-> OrT(d.ip, ip),
              country |-> NoneT,
              country_code |-> d.country,
              loc |-> loc,
              timezone |-> d.timezone,
              asn |-> _asn_block(asn_code, isp),
              company |-> _isp_to_company(isp),
              privacy |-> _privacy_guess(_isp_to_company(isp).type),
              source |-> <<"ipinfo.io">>]

p_bigdatacloud(ip, resp) ==
    IF resp.kind = "error" THEN None
    ELSE IF resp.status # 200 THEN None
    ELSE IF resp.body = BadJson THEN None
    ELSE LET d == resp.body
             coord == _norm_coord(d.latitude, d.longitude)
             tz == d.ianaTimeId
             country_name == OrT(d.country_name, d.registeredCountryName)
             country_code == OrT(d.isoAlpha2, OrT(d.isoCode, d.registeredCountry))
             carriers == d.carriers
             asn_code == IF carriers # <<>> /\ TruthyT(carriers[1].asn)
                         THEN carriers[1].asn ELSE d.net_asn
             org == IF carriers # <<>> /\ TruthyT(carriers[1].organisation)
                    THEN carriers[1].organisation ELSE d.net_organisation
         IN  [ip |-> ip,
              country |-> country_name,
              country_code |-> country_code,
              loc |-> coord,
              timezone |-> tz,
              asn |-> _asn_block(asn_code, org),
              company |-> _isp_to_company(org),
              privacy |-> _privacy_guess(_isp_to_company(org).type),
              source |-> <<"bigdatacloud">>]

(***************************************************************************)
(* _merge_first_good.                                                      *)
(***************************************************************************)
\* TruthyLoc that takes None for a loc.
TruthyLoc_Always(l) == TRUE

\* Truthiness of a loc: None is false, a text is true.
TruthyLoc(l) == l # None

score(d) ==
    (IF TruthyLoc(d.loc) THEN 3 ELSE 0)
    + (IF TruthyT(d.timezone) THEN 1 ELSE 0)
    + (IF TruthyT(d.country) \/ TruthyT(d.country_code) THEN 1 ELSE 0)
    + (IF d.asn.asn # <<>> THEN 1 ELSE 0)

\* list.sort(key=score, reverse=True): stable, highest score first.
RECURSIVE InsertByScore(_, _)
InsertByScore(sorted, r) ==
    IF sorted = <<>> THEN <<r>>
    ELSE IF score(sorted[Len(sorted)]) >= score(r) THEN Append(sorted, r)
    ELSE Append(InsertByScore(SubSeq(sorted, 1, Len(sorted) - 1), r), sorted[Len(sorted)])

\* SortByScore that leaves the list as it came.
SortByScore_Unsorted(results) == results

RECURSIVE SortByScore(_)
SortByScore(results) ==
    IF results = <<>> THEN <<>>
    ELSE InsertByScore(SortByScore(SubSeq(results, 1, Len(results) - 1)), results[Len(results)])

\* srcs.extend(r["source"]) over the sorted results.
RECURSIVE AllSources(_)
AllSources(results) ==
    IF results = <<>> THEN <<>> ELSE results[1].source \o AllSources(Tail(results))

\* Dedup that keeps every occurrence.
Dedup_None(srcs) == srcs

\* list(dict.fromkeys(srcs)): the first occurrence of each, in order.
RECURSIVE Dedup(_)
Dedup(srcs) ==
    IF srcs = <<>> THEN <<>>
    ELSE LET init == Dedup(SubSeq(srcs, 1, Len(srcs) - 1))
             last == srcs[Len(srcs)]
         IN  IF \E i \in 1..Len(init) : init[i] = last THEN init ELSE Append(init, last)

\* The merge of a list that is not empty.
MergeOf(results) ==
         LET sorted == SortByScore(results)
             best == sorted[1]
             source == Dedup(AllSources(sorted))
             confidence == IF Len(source) >= 2 /\ TruthyLoc(best.loc) THEN 9
                           ELSE IF TruthyLoc(best.loc) THEN 7 ELSE 6
         IN  [ip |-> best.ip, country |-> best.country, country_code |-> best.country_code,
              loc |-> best.loc, timezone |-> best.timezone, asn |-> best.asn,
              company |-> best.company, privacy |-> best.privacy,
              source |-> source, confidence |-> confidence, age_ms |-> 0]

\* _merge_first_good that makes a record of no results.
_merge_first_good_OfNothing(results) ==
    IF results = <<>>
    THEN [ip |-> <<>>, country |-> NoneT, country_code |-> NoneT, loc |-> None,
          timezone |-> NoneT, asn |-> _asn_block(NoneT, NoneT),
          company |-> _isp_to_company(NoneT), privacy |-> _privacy_guess("isp"),
          source |-> <<>>, confidence |-> 6, age_ms |-> 0]
    ELSE MergeOf(results)

_merge_first_good(results) ==
    IF results = <<>> THEN None ELSE MergeOf(results)


(***************************************************************************)
(* The cache.  time.time() and the TTL are in seconds, the clock in ticks. *)
(***************************************************************************)
Ticks(seconds) == seconds * 5

\* json.dumps and json.loads: a text that holds the document; other text
\* found under a key does not parse.
Dumps(val) == [t |-> "json", doc |-> val]
Garbage == [t |-> "garbage"]
Parses(raw) == raw.t = "json"
Loads(raw) == raw.doc

\* What the Redis client's get ends in: the value under the key, nil for no
\* (or an expired) key, or a connection error raised to the caller.
Nil == [t |-> "nil"]
ConnectionError == [t |-> "ConnectionError"]

\* MemGet without the expiry test.
MemGet_NoExpiry(m, key, t) ==
    IF key \notin DOMAIN m
    THEN [raised |-> FALSE, ret |-> None, mem |-> m]
    ELSE [raised |-> FALSE, ret |-> m[key].val, mem |-> m]

\* MemGet that pushes the expiry of an entry it returns one tick further.
MemGet_Touch(m, key, t) ==
    IF key \notin DOMAIN m
    THEN [raised |-> FALSE, ret |-> None, mem |-> m]
    ELSE IF m[key].exp < t
         THEN [raised |-> FALSE, ret |-> None,
               mem |-> [k \in DOMAIN m \ {key} |-> m[k]]]
         ELSE [raised |-> FALSE, ret |-> m[key].val,
               mem |-> [m EXCEPT ![key].exp = @ + 1]]

\* The in-process branch of Cache.get at time now: the returned value and the map.
MemGet(m, key, t) ==
    IF key \notin DOMAIN m
    THEN [raised |-> FALSE, ret |-> None, mem |-> m]
    ELSE IF m[key].exp < t
         THEN [raised |-> FALSE, ret |-> None,
               mem |-> [k \in DOMAIN m \ {key} |-> m[k]]]
         ELSE [raised |-> FALSE, ret |-> m[key].val, mem |-> m]

\* The Redis branch of Cache.get, given what self._redis.get ended in.
RedisGet(m, reply) ==
    IF reply = ConnectionError
    THEN [raised |-> TRUE, ret |-> None, mem |-> m]
    ELSE IF reply # Nil
         THEN IF Parses(reply)
              THEN [raised |-> FALSE, ret |-> Loads(reply), mem |-> m]
              ELSE [raised |-> FALSE, ret |-> None, mem |-> m]
         ELSE [raised |-> FALSE, ret |-> None, mem |-> m]

Cache_get(useRedis, m, key, reply, t) ==
    IF useRedis THEN RedisGet(m, reply) ELSE MemGet(m, key, t)

\* MemSet that writes the record but keeps the expiry of an entry it replaces.
MemSet_KeepsExpiry(m, key, val, ttl, t) ==
    [k \in DOMAIN m \cup {key} |->
        IF k = key
        THEN [exp |-> IF key \in DOMAIN m THEN m[key].exp ELSE t + Ticks(ttl), val |-> val]
        ELSE m[k]]

MemSet(m, key, val, ttl, t) ==
    [k \in DOMAIN m \cup {key} |->
        IF k = key THEN [exp |-> t + Ticks(ttl), val |-> val] ELSE m[k]]

RedisSetex(r, key, ttl, raw, t) ==
    [k \in DOMAIN r \cup {key} |->
        IF k = key THEN [exp |-> t + Ticks(ttl), raw |-> raw] ELSE r[k]]

\* Cache.set: the map and the Redis store afterwards.  setexOk says whether
\* self._redis.setex went through; when it raised, the except clause passes
\* and the in-process assignment below it runs.
Cache_set(useRedis, m, r, key, val, ttl, setexOk, t) ==
    IF useRedis /\ setexOk
    THEN [mem |-> m, redis |-> RedisSetex(r, key, ttl, Dumps(val), t)]
    ELSE [mem |-> MemSet(m, key, val, ttl, t), redis |-> r]

\* The Redis server's answer to GET at time t: keys past their expiry are gone.
RedisReply(r, key, t) ==
    IF key \in DOMAIN r /\ ~(t > r[key].exp) THEN r[key].raw ELSE Nil


(***************************************************************************)
(* lookup_ip: the pieces of its body.                                      *)
(***************************************************************************)
\* The fan-out order of the providers: providers[:2] is the first wave.
providers == <<"p_ipapi", "p_ipinfo", "p_bigdatacloud">>
Primary == {1, 2}
Secondary == {3}

\* asyncio.sleep(0.2) and asyncio.wait(..., timeout=1.6), in ticks of 200 ms.
Stagger == 1
WaitTimeout == 8
\* min(ttl, 600)
HostingTtlCap == 600

\* ck = f"ip:{ip}"
CacheKey(ip) == <<"i", "p", ":">> \o ip

\* IsHit that never sees a hit.
IsHit_Never(cached) == FALSE

\* if cached:
IsHit(cached) == cached # None

\* cached["age_ms"] = 0
HitRecord(cached) == [cached EXCEPT !.age_ms = 0]

\* TtlFor without the cap for hosting records.
TtlFor_NoCap(merged, default) == default

\* The TTL lookup_ip passes to cache.set for a merged record.
TtlFor(merged, default) ==
    IF merged.privacy.hosting
    THEN (IF default < HostingTtlCap THEN default ELSE HostingTtlCap)
    ELSE default

\* A task that was not created, and what asyncio.create_task(p(ip, client)) makes
\* of provider i: a running call, or, when the adapter finds its credential
\* missing, a task that ends with None at its first step, without a request.
NoTask == [st |-> "new", res |-> None, req |-> FALSE, late |-> FALSE, over |-> FALSE]
NoTasks == [i \in 1..3 |-> NoTask]

Credential(i, c) ==
    CASE i = 1 -> "unused"
      [] i = 2 -> c.IPINFO_TOKEN
      [] i = 3 -> c.BDC_KEY

CreateTask(i, c) ==
    IF HasCredential(Credential(i, c))
    THEN [st |-> "running", res |-> None, req |-> TRUE, late |-> FALSE, over |-> FALSE]
    ELSE [st |-> "done", res |-> None, req |-> FALSE, late |-> FALSE, over |-> FALSE]

CreateTasks(tasks, wave, c) ==
    [i \in 1..3 |-> IF i \in wave THEN CreateTask(i, c) ELSE tasks[i]]

\* What provider i's adapter returns for a response.
Adapter(i, ip, resp) ==
    CASE i = 1 -> p_ipapi(ip, resp)
      [] i = 2 -> p_ipinfo(ip, resp)
      [] i = 3 -> p_bigdatacloud(ip, resp)

\* The sleep is over / the bounded wait resolves: every task is done, or the
\* timeout has passed since the wait began.
\* SleepOver for a sleep of no length.
SleepOver_AtOnce(t1, t) == TRUE

SleepOver(t1, t) == t >= t1 + Stagger
AllDone(tasks) == \A i \in 1..3 : tasks[i].st = "done"
\* WaitOver that counts the timeout from nothing: the wait ends when all are done.
WaitOver_NoTimeout(tasks, tw, t) == AllDone(tasks)

WaitOver(tasks, tw, t) == AllDone(tasks) \/ t >= tw + WaitTimeout

\* for t in done: r = t.result(); if r: results.append(r).  order lists the
\* done tasks as the iteration over the set meets them.
RECURSIVE Collect(_, _)
Collect(tasks, order) ==
    IF order = <<>> THEN <<>>
    ELSE LET r == tasks[order[1]].res
         IN  (IF r # None THEN <<r>> ELSE <<>>) \o Collect(tasks, Tail(order))

\* CancelPending that cancels nothing.
CancelPending_None(tasks) == tasks

\* for p in pending: p.cancel()
CancelPending(tasks) ==
    [i \in 1..3 |-> IF tasks[i].st = "running" THEN [tasks[i] EXCEPT !.st = "cancelled"]
                    ELSE tasks[i]]

DoneSet(tasks) == {i \in 1..3 : tasks[i].st = "done"}
Orders(S) == {o \in [1..Cardinality(S) -> S] : \A i, j \in DOMAIN o : i # j => o[i] # o[j]}


(***************************************************************************)
(* The inputs the model draws from.                                        *)
(***************************************************************************)
IP_8888 == <<"8", ".", "8", ".", "8", ".", "8">>
IP_Loop6 == <<":", ":", "1">>
IP_Short == <<"8", ".", "8", ".", "8">>
IP_256 == <<"2", "5", "6", ".", "1", ".", "1", ".", "1">>
IP_Colon1 == <<":", "1">>
Inputs == {IP_8888, IP_Short, IP_256, IP_Colon1, <<>>}

T_Google == <<"G", "o", "o", "g", "l", "e", " ", "L", "L", "C">>
T_KT == <<"K", "T">>
T_AS15169 == <<"A", "S", "1", "5", "1", "6", "9">>
T_US == <<"U", "S">>
T_KR == <<"K", "R">>
T_UTC == <<"U", "T", "C">>

\* Bodies of ipapi.co: a hosting company with coordinates; an ISP without.
ApiHosting ==
    [ip |-> NoneT, latitude |-> Num(37386000), longitude |-> Num(-122083800),
     org |-> T_Google, asn |-> T_AS15169, country_name |-> NoneT, country |-> T_US,
     timezone |-> T_UTC]
ApiIsp ==
    [ip |-> NoneT, latitude |-> JNull, longitude |-> JNull,
     org |-> T_KT, asn |-> NoneT, country_name |-> NoneT, country |-> T_KR,
     timezone |-> NoneT]
\* A body of ipinfo.io: "AS4766 KT", with a loc text of four decimals.
InfoIsp ==
    [ip |-> NoneT, loc |-> LatLon(37566500, 126978000, 4),
     org |-> <<"A", "S", "4", "7", "6", "6", " ">> \o T_KT,
     country |-> T_KR, timezone |-> NoneT]
\* A body of BigDataCloud: the carrier names the organisation.
BdcHosting ==
    [latitude |-> Num(37386000), longitude |-> Num(-122083800), ianaTimeId |-> T_UTC,
     country_name |-> NoneT, registeredCountryName |-> NoneT,
     isoAlpha2 |-> NoneT, isoCode |-> T_US, registeredCountry |-> NoneT,
     carriers |-> <<[asn |-> T_AS15169, organisation |-> T_Google]>>,
     net_asn |-> NoneT, net_organisation |-> NoneT]

Bodies(i) ==
    CASE i = 1 -> {ApiHosting, ApiIsp}
      [] i = 2 -> {InfoIsp}
      [] i = 3 -> {BdcHosting}

\* How provider i's call may end.
Responses(i) ==
    {TransportError, Reply(200, BadJson), Reply(429, BadJson)}
    \cup {Reply(200, b) : b \in Bodies(i)}

\* The configurations: REDIS_URL set or not, IPCACHE_TTL_SEC, the two tokens.
TtlDefaults == {1, 1800}
Configs ==
    [useRedis : BOOLEAN, ttl : TtlDefaults,
     IPINFO_TOKEN : {"", "tok"}, BDC_KEY : {"", "key"}]

(***************************************************************************)
(* The state.                                                              *)
(***************************************************************************)
VARIABLES
    now,      \* the clock, in ticks
    cfg,      \* the configuration read at import: REDIS_URL, the TTL, the tokens
    mem,      \* Cache._mem: key -> [exp, val]
    redis,    \* the Redis store: key -> [exp, raw]
    calls,    \* the lookup_ip calls: where each stands and what it holds
    api       \* direct calls of Cache.get and Cache.set: the last one and
              \* what each key was last set to

vars == <<now, cfg, mem, redis, calls, api>>

Calls == {1}

IdleCall ==
    [pc |-> "idle", ip |-> <<>>, tasks |-> NoTasks, t1 |-> 0, tw |-> 0,
     results |-> <<>>, merged |-> None, ret |-> None, err |-> "", ops |-> <<>>]

NoApi == [last |-> [op |-> "none"], written |-> <<>>]

Empty == [k \in {} |-> None]

\* The configurations the model starts in: both tokens set, IPINFO_TOKEN alone,
\* or neither.
InitConfigs == {c \in Configs : c.IPINFO_TOKEN = "" => c.BDC_KEY = ""}

Init ==
    /\ now = 0
    /\ cfg \in {c \in InitConfigs : ~c.useRedis}
    /\ mem = Empty
    /\ redis = Empty
    /\ calls = [c \in Calls |-> IdleCall]
    /\ api = NoApi


(***************************************************************************)
(* lookup_ip, step by step.  A step runs from one suspension of the        *)
(* coroutine to the next; with the in-process cache, get and set do not    *)
(* suspend.  ops logs what the call has done to the cache and the          *)
(* adapters.                                                               *)
(***************************************************************************)
OpGet == [op |-> "get"]
OpLaunch(i) == [op |-> "launch", p |-> providers[i]]
OpSet(ttl) == [op |-> "set", ttl |-> ttl]

\* lookup_ip from the return of cache.get (its result is g) to the next
\* suspension: a hit returns the record with age_ms = 0 (the assignment is to
\* the cached object itself); a miss starts the first wave and sleeps; an
\* exception of cache.get leaves lookup_ip.  Gives the call and the map.
AfterGet(call, g, c, t) ==
    LET key == CacheKey(call.ip)
    IN  IF g.raised
        THEN [call |-> [call EXCEPT !.pc = "raised", !.err = "ConnectionError",
                                    !.ops = Append(call.ops, OpGet)],
              mem |-> g.mem]
        ELSE IF IsHit(g.ret)
        THEN [call |-> [call EXCEPT !.pc = "returned", !.ret = HitRecord(g.ret),
                                    !.ops = Append(call.ops, OpGet)],
              mem |-> IF c.useRedis THEN g.mem
                      ELSE [g.mem EXCEPT ![key].val = HitRecord(g.ret)]]
        ELSE [call |-> [call EXCEPT !.pc = "sleep", !.t1 = t,
                                    !.tasks = CreateTasks(NoTasks, Primary, c),
                                    !.ops = call.ops \o <<OpGet, OpLaunch(1), OpLaunch(2)>>],
              mem |-> g.mem]

\* A call of lookup_ip(ip): _validate_ip, then cache.get, which suspends the
\* call only when it goes to Redis.
Lookup(c, ip) ==
    /\ calls[c].pc \in {"idle", "returned", "raised"}
    /\ LET call == [IdleCall EXCEPT !.ip = ip]
       IN  IF ~_validate_ip(ip)
           THEN /\ calls' = [calls EXCEPT ![c] = [call EXCEPT !.pc = "raised",
                                                              !.err = "ValueError"]]
                /\ UNCHANGED mem
           ELSE IF cfg.useRedis
           THEN /\ calls' = [calls EXCEPT ![c] = [call EXCEPT !.pc = "redis_get"]]
                /\ UNCHANGED mem
           ELSE LET g == Cache_get(FALSE, mem, CacheKey(ip), Nil, now)
                    next == AfterGet(call, g, cfg, now)
                IN  /\ calls' = [calls EXCEPT ![c] = next.call]
                    /\ mem' = next.mem
    /\ UNCHANGED <<now, cfg, redis, api>>

\* self._redis.get ends: in a connection error, or in the server's answer.
RedisGetDone(c, fails) ==
    /\ calls[c].pc = "redis_get"
    /\ LET key == CacheKey(calls[c].ip)
           reply == IF fails THEN ConnectionError ELSE RedisReply(redis, key, now)
           g == Cache_get(TRUE, mem, key, reply, now)
           next == AfterGet(calls[c], g, cfg, now)
       IN  /\ calls' = [calls EXCEPT ![c] = next.call]
           /\ mem' = next.mem
    /\ UNCHANGED <<now, cfg, redis, api>>

\* The sleep ends: the second wave is created and the bounded wait begins.
Wave2(c) ==
    /\ calls[c].pc = "sleep"
    /\ SleepOver(calls[c].t1, now)
    /\ calls' = [calls EXCEPT ![c].pc = "wait", ![c].tw = now,
                              ![c].tasks = CreateTasks(calls[c].tasks, Secondary, cfg),
                              ![c].ops = Append(calls[c].ops, OpLaunch(3))]
    /\ UNCHANGED <<now, cfg, mem, redis, api>>

\* Provider i's call ends with resp and the adapter task returns.  late says
\* that this is more than the wait's timeout after the first wave began, over
\* that it is more than the wait's timeout after the wait began.
AdapterDone(c, i, resp) ==
    /\ calls[c].pc \in {"sleep", "wait"}
    /\ calls[c].tasks[i].st = "running"
    /\ calls' = [calls EXCEPT ![c].tasks[i] =
                    [st |-> "done", res |-> Adapter(i, calls[c].ip, resp), req |-> TRUE,
                     late |-> now > calls[c].t1 + WaitTimeout,
                     over |-> calls[c].pc = "wait" /\ now > calls[c].tw + WaitTimeout]]
    /\ UNCHANGED <<now, cfg, mem, redis, api>>

\* lookup_ip from the return of asyncio.wait to the next suspension: collect,
\* cancel, merge and, for a merged record, cache.set, which returns at once
\* with the in-process cache and suspends in setex with Redis.
AfterWait(call, order, m, c, t) ==
    LET results == Collect(call.tasks, order)
        tasks == CancelPending(call.tasks)
        merged == _merge_first_good(results)
        done == [call EXCEPT !.tasks = tasks, !.results = results, !.merged = merged,
                             !.t1 = 0, !.tw = 0]
    IN  IF merged # None
        THEN LET ttl == TtlFor(merged, c.ttl)
             IN  IF c.useRedis
                 THEN [call |-> [done EXCEPT !.pc = "redis_set",
                                             !.ops = Append(call.ops, OpSet(ttl))],
                       mem |-> m]
                 ELSE [call |-> [done EXCEPT !.pc = "returned", !.ret = merged,
                                             !.ops = Append(call.ops, OpSet(ttl))],
                       mem |-> Cache_set(FALSE, m, Empty, CacheKey(call.ip), merged, ttl,
                                         TRUE, t).mem]
        ELSE [call |-> [done EXCEPT !.pc = "returned", !.ret = None], mem |-> m]

WaitDone(c, order) ==
    /\ calls[c].pc = "wait"
    /\ WaitOver(calls[c].tasks, calls[c].tw, now)
    /\ LET next == AfterWait(calls[c], order, mem, cfg, now)
       IN  /\ calls' = [calls EXCEPT ![c] = next.call]
           /\ mem' = next.mem
    /\ UNCHANGED <<now, cfg, redis, api>>

\* self._redis.setex ends, in success or in an exception; lookup_ip returns.
RedisSetDone(c, setexOk) ==
    /\ calls[c].pc = "redis_set"
    /\ LET call == calls[c]
           ttl == call.ops[Len(call.ops)].ttl
           after == Cache_set(TRUE, mem, redis, CacheKey(call.ip), call.merged, ttl,
                              setexOk, now)
       IN  /\ mem' = after.mem
           /\ redis' = after.redis
           /\ calls' = [calls EXCEPT ![c].pc = "returned", ![c].ret = call.merged]
    /\ UNCHANGED <<now, cfg, api>>

\* Another writer leaves text under a key of the Redis store that is no JSON.
RedisCorrupt(key) ==
    /\ cfg.useRedis
    /\ key \in DOMAIN redis
    /\ redis[key].raw # Garbage
    /\ redis' = [redis EXCEPT ![key].raw = Garbage]
    /\ UNCHANGED <<now, cfg, mem, calls, api>>

\* Time passes, but not past the moment a sleep or a wait of a call is due.
Due(call, t) ==
    \/ call.pc = "sleep" /\ SleepOver(call.t1, t)
    \/ call.pc = "wait" /\ WaitOver(call.tasks, call.tw, t)

\* A call that has ended keeps its locals (tasks, results, ops) for inspection
\* until time moves on; its outcome stays.
Settled(call) ==
    IF call.pc \in {"returned", "raised"}
    THEN [IdleCall EXCEPT !.pc = call.pc, !.ip = call.ip, !.ret = call.ret, !.err = call.err]
    ELSE call

Tick ==
    /\ now < MaxClock
    /\ \A c \in DOMAIN calls : ~Due(calls[c], now)
    /\ now' = now + 1
    /\ calls' = [c \in DOMAIN calls |-> Settled(calls[c])]
    /\ UNCHANGED <<cfg, mem, redis, api>>

\* With the in-process cache.
Next ==
    \/ \E c \in DOMAIN calls, ip \in Inputs : Lookup(c, ip)
    \/ \E c \in DOMAIN calls : Wave2(c)
    \/ \E c \in DOMAIN calls, i \in 1..3 : \E resp \in Responses(i) : AdapterDone(c, i, resp)
    \/ \E c \in DOMAIN calls : \E order \in Orders(DoneSet(calls[c].tasks)) : WaitDone(c, order)
    \/ Tick

Spec == Init /\ [][Next]_vars

\* With Redis configured, a TTL of one second and the two tokens unset: only
\* ipapi.co is asked.
InitRedis ==
    /\ now = 0
    /\ cfg \in {c \in InitConfigs : c.useRedis /\ c.IPINFO_TOKEN = "" /\ c.ttl = 1}
    /\ mem = Empty
    /\ redis = Empty
    /\ calls = [c \in Calls |-> IdleCall]
    /\ api = NoApi

NextRedis ==
    \/ Next
    \/ \E c \in DOMAIN calls, fails \in BOOLEAN : RedisGetDone(c, fails)
    \/ \E c \in DOMAIN calls, ok \in BOOLEAN : RedisSetDone(c, ok)
    \/ \E key \in DOMAIN redis : RedisCorrupt(key)

SpecRedis == InitRedis /\ [][NextRedis]_vars

(***************************************************************************)
(* The in-process cache called directly: any sequence of set, get and      *)
(* clock advances.                                                         *)
(***************************************************************************)
\* The largest TTL, in seconds, of a direct set.
MaxTtl == 2

ApiKeys == {CacheKey(IP_8888), CacheKey(IP_Loop6)}
ApiVals == {_merge_first_good(<<p_ipapi(IP_8888, Reply(200, b))>>) : b \in Bodies(1)}

ApiSet(key, val, ttl) ==
    /\ mem' = Cache_set(FALSE, mem, redis, key, val, ttl, TRUE, now).mem
    /\ api' = [last |-> [op |-> "set", key |-> key, ret |-> None, at |-> now],
               written |-> [k \in DOMAIN api.written \cup {key} |->
                               IF k = key THEN [at |-> now, ttl |-> ttl, val |-> val]
                               ELSE api.written[k]]]
    /\ UNCHANGED <<now, cfg, redis, calls>>

ApiGet(key) ==
    /\ LET g == Cache_get(FALSE, mem, key, Nil, now)
       IN  /\ mem' = g.mem
           /\ api' = [api EXCEPT !.last = [op |-> "get", key |-> key, ret |-> g.ret,
                                           at |-> now]]
    /\ UNCHANGED <<now, cfg, redis, calls>>

InitCache ==
    /\ now = 0
    /\ cfg \in {c \in InitConfigs : ~c.useRedis /\ c.ttl = 1800 /\ c.BDC_KEY # ""}
    /\ mem = Empty
    /\ redis = Empty
    /\ calls = [c \in Calls |-> IdleCall]
    /\ api = NoApi

NextCache ==
    \/ \E key \in ApiKeys, val \in ApiVals, ttl \in 1..MaxTtl : ApiSet(key, val, ttl)
    \/ \E key \in ApiKeys : ApiGet(key)
    \/ Tick

SpecCache == InitCache /\ [][NextCache]_vars

(***************************************************************************)
(* The claims.                                                             *)
(***************************************************************************)
\* Inputs that are no IPv4 or IPv6 address: three octets, an octet of 256, a
\* single leading colon, the empty text.
InvalidInputs == {IP_Short, IP_256, IP_Colon1, <<>>}

\* C1: a call of lookup_ip with an input that is no valid IPv4/IPv6 address
\* ends in the invalid-input error (ValueError) with no cache get, no cache set
\* and no adapter launched, and leaves the cache as it was.
C1_InvalidInputFailsFirst ==
    [][\A c \in DOMAIN calls : \A ip \in InvalidInputs :
          Lookup(c, ip) =>
             /\ calls'[c].pc = "raised"
             /\ calls'[c].err = "ValueError"
             /\ calls'[c].ops = <<>>
             /\ calls'[c].tasks = NoTasks
             /\ mem' = mem
             /\ redis' = redis]_vars

\* An invalid input was rejected while the cache held an entry.
C1_Witness ==
    \E c \in DOMAIN calls :
        /\ calls[c].pc = "raised"
        /\ calls[c].err = "ValueError"
        /\ calls[c].ip = IP_256
        /\ DOMAIN mem # {}

\* C2: a call of lookup_ip that finds an unexpired entry under "ip:"+ip returns
\* that record with age_ms = 0 at once: its only operation is the cache get, no
\* adapter task is created and the entry stays as it is.
C2_HitReturnsAtOnce ==
    [][\A c \in DOMAIN calls : \A ip \in Inputs :
          (/\ Lookup(c, ip)
           /\ CacheKey(ip) \in DOMAIN mem
           /\ mem[CacheKey(ip)].exp >= now)
          => /\ calls'[c].pc = "returned"
             /\ calls'[c].ret = [mem[CacheKey(ip)].val EXCEPT !.age_ms = 0]
             /\ calls'[c].ret.age_ms = 0
             /\ calls'[c].ops = <<OpGet>>
             /\ calls'[c].tasks = NoTasks
             /\ mem' = mem]_vars

\* A call returned a record from the cache.
C2_Witness ==
    \E c \in DOMAIN calls :
        /\ calls[c].pc = "returned"
        /\ calls[c].ops = <<OpGet>>
        /\ calls[c].ret # None
        /\ calls[c].ret.age_ms = 0
        /\ calls[c].tasks = NoTasks

\* C3 as stated: a get at or after set time + ttl returns None and removes the
\* entry; a get at the time of the set returns the record.
C3_ExpiredAtTtl ==
    (api.last.op = "get" /\ api.last.key \in DOMAIN api.written) =>
        LET g == api.last
            w == api.written[g.key]
        IN  /\ (g.at >= w.at + Ticks(w.ttl) => g.ret = None /\ g.key \notin DOMAIN mem)
            /\ (g.at = w.at => g.ret = w.val)

\* C3, amended: a get later than set time + ttl returns None and removes the
\* entry; a get up to and including set time + ttl returns the record that was
\* set; a get of a key never set returns None.
C3_ExpiredAfterTtl ==
    api.last.op = "get" =>
        LET g == api.last
        IN  IF g.key \in DOMAIN api.written
            THEN LET w == api.written[g.key]
                 IN  /\ (g.at > w.at + Ticks(w.ttl) =>
                            g.ret = None /\ g.key \notin DOMAIN mem)
                     /\ (g.at <= w.at + Ticks(w.ttl) => g.ret = w.val)
            ELSE g.ret = None

\* A get found the entry expired and removed it.
C3_Witness ==
    /\ api.last.op = "get"
    /\ api.last.key \in DOMAIN api.written
    /\ api.last.at > api.written[api.last.key].at + Ticks(api.written[api.last.key].ttl)
    /\ api.last.ret = None
    /\ api.last.key \notin DOMAIN mem

\* The identifier each provider's records carry in source.
SourceName(i) == <<"ipapi.co", "ipinfo.io", "bigdatacloud">>[i]

\* The tasks of a call that are done with a record.
Contributing(call) == {i \in 1..3 : call.tasks[i].st = "done" /\ call.tasks[i].res # None}

\* The call went through the fan-out and its bounded wait has resolved.
Fetched(call) == call.pc \in {"returned", "redis_set"} /\ Len(call.ops) >= 4

\* C4 as stated: the deadline is WaitTimeout (1.6 s) after the first wave was
\* started: no result completing later than that is merged, and no call still
\* sleeps or waits later than that.
C4_DeadlineFromWave1 ==
    \A c \in DOMAIN calls :
        /\ calls[c].pc \in {"sleep", "wait"} => now <= calls[c].t1 + WaitTimeout
        /\ \A i \in 1..3 : ~(Fetched(calls[c]) /\ i \in Contributing(calls[c])
                              /\ calls[c].tasks[i].late)

\* C4, amended: the deadline is WaitTimeout (1.6 s) after the bounded wait
\* began, and the wait begins Stagger (200 ms) after the first wave was started,
\* with the launch of the second wave: the stagger is added to the 1.6 s.  No
\* task completes later than 1.6 s after the wait began, and no call sleeps
\* past the stagger or waits past the timeout.
C4_DeadlineFromWave2 ==
    \A c \in DOMAIN calls :
        /\ calls[c].pc = "sleep" => now <= calls[c].t1 + Stagger
        /\ calls[c].pc = "wait" =>
              /\ calls[c].tw = calls[c].t1 + Stagger
              /\ now <= calls[c].tw + WaitTimeout
        /\ \A i \in 1..3 : ~calls[c].tasks[i].over

\* A record that completed later than 1.6 s after the first wave was merged.
C4_Witness ==
    \E c \in DOMAIN calls : \E i \in 1..3 :
        /\ Fetched(calls[c])
        /\ i \in Contributing(calls[c])
        /\ calls[c].tasks[i].late
        /\ calls[c].ret # None
        /\ \E k \in 1..Len(calls[c].ret.source) : calls[c].ret.source[k] = SourceName(i)

\* C5: once the bounded wait has resolved no task is left running (those not
\* done are cancelled and hold no result), and the merge input is exactly the
\* records of the tasks that are done with a record: the merged source names
\* those providers and no other, and with none of them the merge gives None.
C5_MergeInputIsCompleted ==
    \A c \in DOMAIN calls :
        Fetched(calls[c]) =>
            LET call == calls[c]
                by == Contributing(call)
            IN  /\ \A i \in 1..3 : call.tasks[i].st \in {"done", "cancelled"}
                /\ \A i \in 1..3 : call.tasks[i].st = "cancelled" => call.tasks[i].res = None
                /\ {call.results[k] : k \in 1..Len(call.results)}
                      = {call.tasks[i].res : i \in by}
                /\ Len(call.results) = Cardinality(by)
                /\ (call.merged = None) = (by = {})
                /\ call.merged # None =>
                      {call.merged.source[k] : k \in 1..Len(call.merged.source)}
                         = {SourceName(i) : i \in by}

\* The wait timed out with a task still running, which was cancelled, and the
\* record of another was merged.
C5_Witness ==
    \E c \in DOMAIN calls :
        /\ Fetched(calls[c])
        /\ \E i \in 1..3 : calls[c].tasks[i].st = "cancelled"
        /\ Contributing(calls[c]) # {}
        /\ calls[c].ret # None

\* C6: when the wait resolves with no task done with a record, lookup_ip returns
\* None without a cache set and leaves the cache as it was; and the next lookup
\* of the same IP after a None misses again and starts the first wave.
C6_EmptyIsNotCached ==
    [][\A c \in DOMAIN calls :
          /\ (/\ calls[c].pc = "wait"
              /\ calls'[c].pc # "wait"
              /\ Contributing(calls[c]) = {})
             => /\ calls'[c].pc = "returned"
                /\ calls'[c].ret = None
                /\ \A k \in 1..Len(calls'[c].ops) : calls'[c].ops[k].op # "set"
                /\ mem' = mem
                /\ redis' = redis
          /\ (/\ calls[c].pc = "returned"
              /\ calls[c].ret = None
              /\ Lookup(c, calls[c].ip))
             => /\ calls'[c].pc = "sleep"
                /\ calls'[c].tasks[1].st = "running"]_vars

\* lookup_ip returned None after the fan-out, with a provider that had failed.
C6_Witness ==
    \E c \in DOMAIN calls :
        /\ calls[c].pc = "returned"
        /\ Len(calls[c].ops) = 4
        /\ calls[c].ret = None
        /\ \E i \in 1..3 : calls[c].tasks[i].st = "done" /\ calls[c].tasks[i].req
        /\ CacheKey(calls[c].ip) \notin DOMAIN mem

\* How a provider's call may fail: an exception, a body that is no JSON, a
\* status other than 200 (whatever the body).
Failures(i) ==
    {TransportError, Reply(200, BadJson), Reply(429, BadJson)}
    \cup {Reply(503, b) : b \in Bodies(i)}

\* C7: every failure of a provider's call gives None inside the adapter; a task
\* whose credential is missing is done at once with None and no request;
\* lookup_ip never raises once it is past validation; and after the wait every
\* record of a task that completed is merged into the returned record.
C7_AdapterFailuresAbsorbed ==
    /\ \A i \in 1..3 : \A resp \in Failures(i) : Adapter(i, IP_8888, resp) = None
    /\ \A c \in DOMAIN calls :
          /\ calls[c].pc = "raised" => calls[c].err = "ValueError" /\ calls[c].ops = <<>>
          /\ \A i \in 1..3 :
                (calls[c].tasks[i].st # "new" /\ Credential(i, cfg) = "")
                => /\ calls[c].tasks[i].st = "done"
                   /\ ~calls[c].tasks[i].req
                   /\ calls[c].tasks[i].res = None
          /\ Fetched(calls[c]) =>
                \A i \in Contributing(calls[c]) :
                    /\ calls[c].merged # None
                    /\ \E k \in 1..Len(calls[c].merged.source) :
                          calls[c].merged.source[k] = SourceName(i)

\* lookup_ip returned the record of one provider while the call of another had
\* failed and a third had no credential.
C7_Witness ==
    \E c \in DOMAIN calls :
        /\ calls[c].pc = "returned"
        /\ calls[c].ret # None
        /\ Contributing(calls[c]) # {}
        /\ \E i \in 1..3 : /\ calls[c].tasks[i].st = "done"
                           /\ calls[c].tasks[i].req
                           /\ calls[c].tasks[i].res = None
        /\ \E i \in 1..3 : calls[c].tasks[i].st = "done" /\ ~calls[c].tasks[i].req

\* C8: with Redis configured, no failure of Cache.get surfaces: a lookup never
\* ends in the connection error of the get, it goes on to the providers.
C8_GetFailureIsAMiss ==
    [][\A c \in DOMAIN calls :
          RedisGetDone(c, TRUE) => calls'[c].pc = "sleep" /\ calls'[c].err = ""]_vars

\* C9: with Redis configured, a setex that fails changes neither the Redis
\* store nor the in-process map, and lookup_ip returns the merged record.
C9_SetFailureIsANoOp ==
    [][\A c \in DOMAIN calls :
          RedisSetDone(c, FALSE) =>
             /\ mem' = mem
             /\ redis' = redis
             /\ calls'[c].pc = "returned"
             /\ calls'[c].ret = calls[c].merged]_vars

\* C10: the TTL of the cache set of a merged record is min(default TTL, 600)
\* when privacy.hosting is true and the default TTL otherwise, never above 600
\* for a hosting record; the entry expires that long after the set.
C10_HostingTtlCapped ==
    \A c \in DOMAIN calls :
        (/\ calls[c].pc = "returned"
         /\ calls[c].ops # <<>>
         /\ calls[c].ops[Len(calls[c].ops)].op = "set")
        => LET ttl == calls[c].ops[Len(calls[c].ops)].ttl
               rec == calls[c].ret
           IN  /\ rec # None
               /\ ttl = IF rec.privacy.hosting
                        THEN (IF cfg.ttl <= 600 THEN cfg.ttl ELSE 600)
                        ELSE cfg.ttl
               /\ (rec.privacy.hosting => ttl <= 600)
               /\ mem[CacheKey(calls[c].ip)] = [exp |-> now + Ticks(ttl), val |-> rec]

\* A hosting record was stored for 600 s under a default TTL of 1800 s.
C10_Witness ==
    \E c \in DOMAIN calls :
        /\ calls[c].pc = "returned"
        /\ calls[c].ret # None
        /\ calls[c].ret.privacy.hosting
        /\ cfg.ttl = 1800
        /\ calls[c].ops # <<>>
        /\ calls[c].ops[Len(calls[c].ops)] = OpSet(600)
        /\ mem[CacheKey(calls[c].ip)].exp = now + Ticks(600)

(***************************************************************************)
(* _merge_first_good called directly, on every list of up to MaxCandidates *)
(* candidate records.                                                      *)
(***************************************************************************)
\* The longest list of candidates.
MaxCandidates == 3

\* A record of the common schema as an adapter may make it, from what the
\* merge reads: loc, timezone, country_code, the ASN and the source list.
Cand(loc, tz, cc, asn, src) ==
    [ip |-> IP_8888, country |-> NoneT, country_code |-> cc, loc |-> loc,
     timezone |-> tz, asn |-> _asn_block(asn, NoneT),
     company |-> _isp_to_company(NoneT), privacy |-> _privacy_guess("isp"),
     source |-> src]

\* A record with a loc and nothing else, from source "a"; a record with a
\* country code and no loc, from sources "b" and "a".
OnlyLoc == Cand(LatLon(Deg(10), Deg(20), 6), NoneT, NoneT, NoneT, <<"a">>)
NoLoc == Cand(None, NoneT, T_KR, NoneT, <<"b", "a">>)

\* The candidates: what the three adapters make of the bodies, and the two above.
MergeCandidates ==
    {Adapter(i, IP_8888, Reply(200, b)) : i \in {1}, b \in Bodies(1)}
    \cup {Adapter(2, IP_8888, Reply(200, b)) : b \in Bodies(2)}
    \cup {Adapter(3, IP_8888, Reply(200, b)) : b \in Bodies(3)}
    \cup {OnlyLoc, NoLoc}

CandidateLists == UNION {[1..n -> MergeCandidates] : n \in 0..MaxCandidates}

\* merged = _merge_first_good(results)
MergeStep(c) ==
    /\ calls[c].pc = "merge"
    /\ calls' = [calls EXCEPT ![c].pc = "merged",
                              ![c].merged = _merge_first_good(calls[c].results)]
    /\ UNCHANGED <<now, cfg, mem, redis, api>>

InitMerge ==
    /\ now = 0
    /\ cfg \in {c \in InitConfigs : ~c.useRedis /\ c.ttl = 1800 /\ c.BDC_KEY # ""}
    /\ mem = Empty
    /\ redis = Empty
    /\ \E rs \in CandidateLists :
          calls = [c \in Calls |-> [IdleCall EXCEPT !.pc = "merge", !.ip = IP_8888,
                                                    !.results = rs]]
    /\ api = NoApi

NextMerge == \E c \in DOMAIN calls : MergeStep(c)

SpecMerge == InitMerge /\ [][NextMerge]_vars

\* The fields of a merged record that come from its base.
BodyFields == {"ip", "country", "country_code", "loc", "timezone", "asn", "company", "privacy"}
IsBaseOf(r, merged) == \A f \in BodyFields : merged[f] = r[f]

\* The completeness score as the specification states it.
Completeness(d) ==
    (IF d.loc # None THEN 3 ELSE 0)
    + (IF d.timezone \notin {NoneT, <<>>} THEN 1 ELSE 0)
    + (IF d.country \notin {NoneT, <<>>} \/ d.country_code \notin {NoneT, <<>>} THEN 1 ELSE 0)
    + (IF d.asn.asn # <<>> THEN 1 ELSE 0)

\* C11: the base of the merged record is a candidate whose completeness score
\* (3 for loc, 1 for timezone, 1 for country or country_code, 1 for a
\* non-empty asn.asn) is the highest among the candidates, and the code's score
\* is that score; a candidate that scores 6 outranks one that scores 3.
C11_BaseHasMaxScore ==
    \A c \in DOMAIN calls :
        (calls[c].pc = "merged" /\ calls[c].results # <<>>) =>
            LET rs == calls[c].results
                merged == calls[c].merged
            IN  /\ \A k \in 1..Len(rs) : score(rs[k]) = Completeness(rs[k])
                /\ merged # None
                /\ \E k \in 1..Len(rs) :
                      /\ IsBaseOf(rs[k], merged)
                      /\ \A j \in 1..Len(rs) : Completeness(rs[j]) <= Completeness(rs[k])

\* A candidate with only a loc (score 3) came before one with loc, timezone,
\* country code and ASN (score 6), and the merge took the second as its base.
C11_Witness ==
    \E c \in DOMAIN calls :
        /\ calls[c].pc = "merged"
        /\ Len(calls[c].results) >= 2
        /\ calls[c].results[1] = OnlyLoc
        /\ Completeness(calls[c].results[1]) = 3
        /\ Completeness(calls[c].results[2]) = 6
        /\ IsBaseOf(calls[c].results[2], calls[c].merged)
        /\ ~IsBaseOf(calls[c].results[1], calls[c].merged)

\* The contributing tasks of a call whose records score highest.
TopScorers(call) ==
    {i \in Contributing(call) :
        \A j \in Contributing(call) : score(call.tasks[j].res) <= score(call.tasks[i].res)}

\* C12: when several candidates share the highest score, the base of the merged
\* record is the record of the one that comes first in the fan-out order
\* (ipapi, ipinfo, bigdatacloud), and its identifier leads the source list,
\* whatever order the tasks completed in or were collected from the done set.
C12_TieGoesToFanOutOrder ==
    \A c \in DOMAIN calls :
        (Fetched(calls[c]) /\ calls[c].merged # None) =>
            LET top == TopScorers(calls[c])
                first == CHOOSE i \in top : \A j \in top : i <= j
            IN  /\ IsBaseOf(calls[c].tasks[first].res, calls[c].merged)
                /\ calls[c].merged.source[1] = SourceName(first)

\* The identifiers in the source lists of a list of candidates.
SourcesOf(rs) == UNION {{rs[k].source[n] : n \in 1..Len(rs[k].source)} : k \in 1..Len(rs)}

\* The place of identifier a's first occurrence when the source lists of the
\* candidates are read one after the other: <<candidate, place in its list>>.
FirstSeen(rs, a) ==
    LET k == CHOOSE i \in 1..Len(rs) :
                 /\ \E n \in 1..Len(rs[i].source) : rs[i].source[n] = a
                 /\ \A j \in 1..(i - 1) : \A n \in 1..Len(rs[j].source) : rs[j].source[n] # a
        n == CHOOSE m \in 1..Len(rs[k].source) :
                 /\ rs[k].source[m] = a
                 /\ \A l \in 1..(m - 1) : rs[k].source[l] # a
    IN  <<k, n>>

Before(p, q) == p[1] < q[1] \/ (p[1] = q[1] /\ p[2] < q[2])

\* C13: the source list of the merged record holds every identifier of the
\* candidates' source lists exactly once and no other, in the order in which
\* the identifiers are first seen when the candidates are read from the
\* highest score down.
C13_SourceIsDedupedUnion ==
    \A c \in DOMAIN calls :
        (calls[c].pc = "merged" /\ calls[c].results # <<>>) =>
            LET rs == calls[c].results
                src == calls[c].merged.source
            IN  /\ {src[n] : n \in 1..Len(src)} = SourcesOf(rs)
                /\ \A m, n \in 1..Len(src) : m # n => src[m] # src[n]
                /\ \A m, n \in 1..Len(src) :
                      m < n => Before(FirstSeen(SortByScore(rs), src[m]),
                                      FirstSeen(SortByScore(rs), src[n]))

\* Candidates with the source lists ["a"] and ["b", "a"] were merged into a
\* record whose source list holds "a" and "b" once each.
C13_Witness ==
    \E c \in DOMAIN calls :
        /\ calls[c].pc = "merged"
        /\ calls[c].results = <<NoLoc, OnlyLoc>>
        /\ calls[c].merged.source = <<"a", "b">>

\* C14: the confidence of the merged record is 0.9 exactly when its base has a
\* loc and the candidates name at least two distinct sources, 0.7 exactly when
\* its base has a loc and they name fewer than two, and 0.6 exactly when its
\* base has no loc; its age_ms is 0.
C14_ConfidenceRule ==
    \A c \in DOMAIN calls :
        (calls[c].pc = "merged" /\ calls[c].results # <<>>) =>
            LET merged == calls[c].merged
                distinct == Cardinality(SourcesOf(calls[c].results))
                hasLoc == merged.loc # None
            IN  /\ merged.confidence \in {6, 7, 9}
                /\ (merged.confidence = 9) = (hasLoc /\ distinct >= 2)
                /\ (merged.confidence = 7) = (hasLoc /\ distinct < 2)
                /\ (merged.confidence = 6) = ~hasLoc
                /\ merged.age_ms = 0

\* Two candidates of the same single source, with a loc: 0.7, not 0.9.
C14_Witness ==
    \E c \in DOMAIN calls :
        /\ calls[c].pc = "merged"
        /\ Len(calls[c].results) = 2
        /\ Cardinality(SourcesOf(calls[c].results)) = 1
        /\ calls[c].merged.loc # None
        /\ calls[c].merged.confidence = 7
        /\ calls[c].merged.age_ms = 0

\* C15: for the tasks that are done when the wait resolves, the merged record
\* (its base, the order of its source list, its confidence) is the same for
\* every order in which the done tasks are collected into the candidate list.
C15_MergeIsOrderIndependent ==
    \A c \in DOMAIN calls :
        calls[c].pc = "wait" =>
            \A o1, o2 \in Orders(DoneSet(calls[c].tasks)) :
                _merge_first_good(Collect(calls[c].tasks, o1))
                    = _merge_first_good(Collect(calls[c].tasks, o2))

\* C16: a lookup that misses the cache starts both adapters of the first wave
\* in the step in which it misses, and the adapter of the second wave is
\* started only from the sleep, with both first-wave adapters started before
\* and at least Stagger (200 ms) after them, whether or not they are done.
C16_Wave1ThenStaggerThenWave2 ==
    [][\A c \in DOMAIN calls :
          /\ (calls[c].pc # "sleep" /\ calls'[c].pc = "sleep")
             => /\ calls'[c].tasks[1].st # "new"
                /\ calls'[c].tasks[2].st # "new"
                /\ calls'[c].tasks[3].st = "new"
                /\ calls'[c].t1 = now
                /\ calls'[c].ops = <<OpGet, OpLaunch(1), OpLaunch(2)>>
          /\ (calls[c].tasks[3].st = "new" /\ calls'[c].tasks[3].st # "new")
             => /\ calls[c].pc = "sleep"
                /\ calls[c].tasks[1].st # "new"
                /\ calls[c].tasks[2].st # "new"
                /\ now >= calls[c].t1 + Stagger
                /\ calls'[c].ops = <<OpGet, OpLaunch(1), OpLaunch(2), OpLaunch(3)>>
          /\ calls[c].pc = "sleep" => calls[c].tasks[3].st = "new"]_vars

\* Both adapters of the first wave are done and the third adapter was started,
\* 200 ms after them, and is running.
C16_Witness ==
    \E c \in DOMAIN calls :
        /\ calls[c].pc = "wait"
        /\ calls[c].tasks[1].st = "done" /\ calls[c].tasks[1].req
        /\ calls[c].tasks[2].st = "done" /\ calls[c].tasks[2].req
        /\ calls[c].tasks[3].st = "running"
        /\ calls[c].tw = calls[c].t1 + Stagger
        /\ now = calls[c].tw

(***************************************************************************)
(* lookup_ip with a caller that modifies the record it was handed.         *)
(***************************************************************************)
\* A country code no provider answers with.
T_XX == <<"X", "X">>

\* The record a call returned is the object the in-process map holds under the
\* key: Cache.set stores the dict it is given, Cache.get returns the dict it
\* stores, and lookup_ip returns that dict.  With one call at a time the entry
\* is the call's record exactly when the two are equal.  json.loads makes a new
\* object of every Redis hit.
SameObject(useRedis, call, m) ==
    /\ ~useRedis
    /\ CacheKey(call.ip) \in DOMAIN m
    /\ m[CacheKey(call.ip)].val = call.ret

\* The caller of lookup_ip assigns to a field of the record it got back.
CallerMutates(c) ==
    /\ calls[c].pc = "returned"
    /\ calls[c].ret # None
    /\ calls[c].ret.country_code # T_XX
    /\ LET changed == [calls[c].ret EXCEPT !.country_code = T_XX]
       IN  /\ calls' = [calls EXCEPT ![c].ret = changed]
           /\ mem' = IF SameObject(cfg.useRedis, calls[c], mem)
                     THEN [mem EXCEPT ![CacheKey(calls[c].ip)].val = changed]
                     ELSE mem
    /\ UNCHANGED <<now, cfg, redis, api>>

InitMutate ==
    /\ now = 0
    /\ cfg \in {c \in InitConfigs : ~c.useRedis /\ c.IPINFO_TOKEN = "" /\ c.ttl = 1}
    /\ mem = Empty
    /\ redis = Empty
    /\ calls = [c \in Calls |-> IdleCall]
    /\ api = NoApi

NextMutate ==
    \/ Next
    \/ \E c \in DOMAIN calls : CallerMutates(c)

SpecMutate == InitMutate /\ [][NextMutate]_vars

\* C17: a record in the cache is a snapshot: no cache hit returns a record that
\* carries a modification a caller made to a record lookup_ip had returned.
C17_HitReturnsTheSnapshot ==
    [][\A c \in DOMAIN calls : \A ip \in Inputs :
          (/\ Lookup(c, ip)
           /\ CacheKey(ip) \in DOMAIN mem
           /\ mem[CacheKey(ip)].exp >= now)
          => /\ calls'[c].pc = "returned"
             /\ calls'[c].ret.country_code # T_XX]_vars

(***************************************************************************)
(* The adapters called directly, on answers whose coordinates are in       *)
(* range, out of range, null or no number.                                 *)
(***************************************************************************)
\* latitude / longitude values of a JSON body: 37.5, -122.3, 95, null, "n/a".
CoordValues == {Num(37500000), Num(-122300000), Num(Deg(95)), JNull, JText}

\* The loc of an ipinfo.io body: null, "37.5,-122.3", "95.0,200.0", "n/a".
InfoLocs == {None, LatLon(37500000, -122300000, 1), LatLon(Deg(95), Deg(200), 1), JText}

AdaptBodies(i) ==
    CASE i = 1 -> {[ApiHosting EXCEPT !.latitude = la, !.longitude = lo] :
                      la \in CoordValues, lo \in CoordValues}
      [] i = 2 -> {[InfoIsp EXCEPT !.loc = l] : l \in InfoLocs}
      [] i = 3 -> {[BdcHosting EXCEPT !.latitude = la, !.longitude = lo] :
                      la \in CoordValues, lo \in CoordValues}

\* Provider i's adapter runs on a 200 answer with body b.
Adapt(c, i, b) ==
    /\ calls[c].pc = "adapt"
    /\ calls' = [calls EXCEPT ![c].tasks[i] =
                    [st |-> "done", res |-> Adapter(i, calls[c].ip, Reply(200, b)),
                     req |-> TRUE, late |-> FALSE, over |-> FALSE]]
    /\ api' = [api EXCEPT !.last = [op |-> "adapt", p |-> i, body |-> b]]
    /\ UNCHANGED <<now, cfg, mem, redis>>

InitAdapt ==
    /\ now = 0
    /\ cfg \in {c \in InitConfigs : ~c.useRedis /\ c.ttl = 1800 /\ c.BDC_KEY # ""}
    /\ mem = Empty
    /\ redis = Empty
    /\ calls = [c \in Calls |-> [IdleCall EXCEPT !.pc = "adapt", !.ip = IP_8888]]
    /\ api = NoApi

NextAdapt == \E c \in DOMAIN calls, i \in 1..3 : \E b \in AdaptBodies(i) : Adapt(c, i, b)

SpecAdapt == InitAdapt /\ [][NextAdapt]_vars

\* The latitude and longitude a body of provider i states.
StatedCoord(i, b) ==
    IF i = 2
    THEN IF b.loc # None /\ b.loc.t = "latlon"
         THEN <<Num(b.loc.lat), Num(b.loc.lon)>> ELSE <<JNull, JNull>>
    ELSE <<b.latitude, b.longitude>>

CoordInRange(co) ==
    /\ co[1].t = "num" /\ co[2].t = "num"
    /\ Deg(-90) <= co[1].v /\ co[1].v <= Deg(90)
    /\ Deg(-180) <= co[2].v /\ co[2].v <= Deg(180)

\* C18: in every record an adapter makes, loc is the six-decimal "<lat>,<lon>"
\* of the coordinates the answer states when both are numbers with the latitude
\* in [-90,90] and the longitude in [-180,180], and None otherwise.
C18_LocIsNormalizedOrAbsent ==
    \A c \in DOMAIN calls :
        api.last.op = "adapt" =>
            LET r == calls[c].tasks[api.last.p].res
                co == StatedCoord(api.last.p, api.last.body)
            IN  /\ r # None
                /\ r.loc = IF CoordInRange(co) THEN LatLon(co[1].v, co[2].v, 6) ELSE None

(***************************************************************************)
(* Two calls of lookup_ip in flight at once on the one event loop, with    *)
(* the in-process cache.                                                   *)
(***************************************************************************)
ConcurrentCalls == {1, 2}

InitConcurrent ==
    /\ now = 0
    /\ cfg \in {c \in InitConfigs : ~c.useRedis /\ c.IPINFO_TOKEN = "" /\ c.ttl = 1}
    /\ mem = Empty
    /\ redis = Empty
    /\ calls = [c \in ConcurrentCalls |-> IdleCall]
    /\ api = NoApi

SpecConcurrent == InitConcurrent /\ [][Next]_vars

\* A merged record with all that _merge_first_good sets on it.
IsWholeMerge(m, results) ==
    /\ m # None
    /\ m = _merge_first_good(results)
    /\ m.source # <<>>
    /\ m.confidence \in {6, 7, 9}
    /\ m.age_ms = 0

\* C19: under every interleaving of lookups of the same IP, an entry appears
\* or changes under a key only in the step in which one call's wait resolves,
\* and the entry is then that call's whole merged record (source, confidence,
\* age_ms = 0) with that call's expiry, now + its TTL; as the map starts empty,
\* every entry is at every moment one call's record with the same call's expiry.
C19_EntryIsOneWholeWrite ==
    [][\A key \in DOMAIN mem' :
          (key \notin DOMAIN mem \/ mem'[key] # mem[key]) =>
              \E c \in DOMAIN calls :
                  /\ calls[c].pc = "wait"
                  /\ calls'[c].pc = "returned"
                  /\ key = CacheKey(calls[c].ip)
                  /\ IsWholeMerge(calls'[c].merged, calls'[c].results)
                  /\ \A d \in DOMAIN calls \ {c} : calls'[d] = calls[d]
                  /\ mem'[key] = [exp |-> now + Ticks(TtlFor(calls'[c].merged, cfg.ttl)),
                                  val |-> calls'[c].merged]]_vars

\* Two lookups of the same IP were in flight together; both waits resolved in
\* the same tick with different records, and the entry is the whole record of
\* the call that wrote last.
C19_Witness ==
    /\ calls[1].pc = "returned" /\ calls[1].ret # None
    /\ calls[2].pc = "returned" /\ calls[2].ret # None
    /\ calls[1].ip = calls[2].ip
    /\ calls[1].ops # <<>> /\ calls[1].ops[Len(calls[1].ops)].op = "set"
    /\ calls[2].ops # <<>> /\ calls[2].ops[Len(calls[2].ops)].op = "set"
    /\ calls[1].ret.privacy.hosting /\ ~calls[2].ret.privacy.hosting
    /\ mem[CacheKey(calls[2].ip)] = [exp |-> now + Ticks(cfg.ttl), val |-> calls[2].ret]

(***************************************************************************)
(* lookup_ip of one address with the in-process cache, with a log of the   *)
(* last write of the entry, of the hits since, and of the last lookup.     *)
(***************************************************************************)
\* The most hits of one entry that the log counts.
MaxHits == 2

\* lookup_ip("8.8.8.8") up to its first suspension, as Lookup, and the log:
\* whether the get was a hit, and one more hit of the entry.
LookupLogged(c) ==
    /\ calls[c].pc \in {"idle", "returned", "raised"}
    /\ LET key == CacheKey(IP_8888)
           g == Cache_get(FALSE, mem, key, Nil, now)
           next == AfterGet([IdleCall EXCEPT !.ip = IP_8888], g, cfg, now)
           hit == IsHit(g.ret)
       IN  /\ hit => api.written[key].hits < MaxHits
           /\ calls' = [calls EXCEPT ![c] = next.call]
           /\ mem' = next.mem
           /\ api' = [last |-> [op |-> "lookup", key |-> key, hit |-> hit, at |-> now],
                      written |-> IF hit
                                  THEN [api.written EXCEPT ![key].hits = @ + 1]
                                  ELSE api.written]
    /\ UNCHANGED <<now, cfg, redis>>

\* The wait resolves, as WaitDone, and the log: the write of the entry.
WaitDoneLogged(c, order) ==
    /\ calls[c].pc = "wait"
    /\ WaitOver(calls[c].tasks, calls[c].tw, now)
    /\ LET next == AfterWait(calls[c], order, mem, cfg, now)
           key == CacheKey(calls[c].ip)
       IN  /\ calls' = [calls EXCEPT ![c] = next.call]
           /\ mem' = next.mem
           /\ api' = IF next.call.merged # None
                     THEN [api EXCEPT !.written =
                              [k \in DOMAIN api.written \cup {key} |->
                                  IF k = key
                                  THEN [at |-> now,
                                        ttl |-> TtlFor(next.call.merged, cfg.ttl),
                                        hits |-> 0]
                                  ELSE api.written[k]]]
                     ELSE api
    /\ UNCHANGED <<now, cfg, redis>>

InitLogged ==
    /\ now = 0
    /\ cfg \in {c \in InitConfigs : ~c.useRedis /\ c.ttl = 1}
    /\ mem = Empty
    /\ redis = Empty
    /\ calls = [c \in Calls |-> IdleCall]
    /\ api = NoApi

NextLogged ==
    \/ \E c \in DOMAIN calls : LookupLogged(c)
    \/ \E c \in DOMAIN calls : Wave2(c)
    \/ \E c \in DOMAIN calls, i \in 1..3 : \E resp \in Responses(i) : AdapterDone(c, i, resp)
    \/ \E c \in DOMAIN calls : \E order \in Orders(DoneSet(calls[c].tasks)) :
          WaitDoneLogged(c, order)
    \/ Tick

SpecLogged == InitLogged /\ [][NextLogged]_vars

\* C20: a hit does not extend an entry's life.  However many hits an entry
\* written at time t with TTL d has had, its stored expiry is t + d as long as
\* it is in the map, a lookup later than t + d misses, and a lookup that hits
\* does nothing to the cache but the get.
C20_HitsDoNotExtendLife ==
    /\ \A key \in DOMAIN mem :
          /\ key \in DOMAIN api.written
          /\ mem[key].exp = api.written[key].at + Ticks(api.written[key].ttl)
    /\ (api.last.op = "lookup" /\ api.last.key \in DOMAIN api.written) =>
          LET w == api.written[api.last.key]
          IN  /\ (api.last.at > w.at + Ticks(w.ttl) /\ api.last.at >= w.at) => ~api.last.hit
              /\ api.last.hit => api.last.at <= w.at + Ticks(w.ttl)
    /\ \A c \in DOMAIN calls :
          (api.last.op = "lookup" /\ api.last.hit /\ calls[c].ops # <<>>
           /\ calls[c].pc = "returned")
          => calls[c].ops = <<OpGet>>

\* An entry was hit MaxHits times within its TTL, and the lookup after its
\* expiry missed.
C20_Witness ==
    /\ api.last.op = "lookup"
    /\ ~api.last.hit
    /\ api.last.key \in DOMAIN api.written
    /\ api.written[api.last.key].hits = MaxHits
    /\ api.last.at > api.written[api.last.key].at + Ticks(api.written[api.last.key].ttl)
    /\ api.last.at = now
    /\ \E c \in DOMAIN calls : calls[c].pc = "sleep" /\ calls[c].t1 = now

=============================================================================
